---- MODULE Spec2Model ----
(***************************************************************************)
(* State-synchronisation core of homebridge-rgbw-mqtt                      *)
(* (src/src/accessory.ts, class ExampleSwitch): the five mirror fields,    *)
(* the MQTT 'message' and 'error' listeners and the ten characteristic     *)
(* GET/SET handlers.                                                       *)
(*                                                                         *)
(* JavaScript values are records [t, n, s, m]: t is the typeof tag         *)
(* ("array" and "null" are told apart from "object"), n the numeric or     *)
(* boolean payload, s the characters of a string, m the members of an      *)
(* object or the elements of an array.  Strings of the program are         *)
(* sequences of one-character strings, so that JSON.parse, toString and    *)
(* split act on characters as the runtime does.  Numbers are the naturals. *)
(***************************************************************************)
EXTENDS Naturals, Sequences, FiniteSets

(***************************************************************************)
(* JavaScript values                                                       *)
(***************************************************************************)
JNum(k)  == [t |-> "number",    n |-> k, s |-> << >>, m |-> << >>]
JStr(cs) == [t |-> "string",    n |-> 0, s |-> cs,    m |-> << >>]
JBool(b) == [t |-> "boolean",   n |-> IF b THEN 1 ELSE 0, s |-> << >>, m |-> << >>]
JNull    == [t |-> "null",      n |-> 0, s |-> << >>, m |-> << >>]
JUndef   == [t |-> "undefined", n |-> 0, s |-> << >>, m |-> << >>]
JObj(ms) == [t |-> "object",    n |-> 0, s |-> << >>, m |-> ms]
JArr(es) == [t |-> "array",     n |-> 0, s |-> << >>, m |-> es]

\* One member of an object (k the key) or one element of an array (k empty).
Member(key, val) == [k |-> key, v |-> val]

Digits == <<"0", "1", "2", "3", "4", "5", "6", "7", "8", "9">>

IsDigit(c) == \E d \in 1..10 : Digits[d] = c

DigitVal(c) == (CHOOSE d \in 1..10 : Digits[d] = c) - 1

\* Number.prototype.toString() of a natural: its decimal digits.
RECURSIVE NumToStr(_)
NumToStr(k) ==
    IF k < 10 THEN << Digits[k + 1] >>
    ELSE NumToStr(k \div 10) \o << Digits[(k % 10) + 1] >>

\* ToNumber of a string: "" is 0, a run of digits is its decimal value and
\* any other text of the model's alphabet is NaN (nan |-> TRUE).
RECURSIVE DigitsValue(_, _)
DigitsValue(cs, acc) ==
    IF cs = << >> THEN acc
    ELSE DigitsValue(Tail(cs), acc * 10 + DigitVal(Head(cs)))

StrToNumber(cs) ==
    IF \A i \in 1..Len(cs) : IsDigit(cs[i])
    THEN [nan |-> FALSE, n |-> DigitsValue(cs, 0)]
    ELSE [nan |-> TRUE, n |-> 0]

Chars_true    == <<"t", "r", "u", "e">>
Chars_false   == <<"f", "a", "l", "s", "e">>
Chars_null    == <<"n", "u", "l", "l">>
Chars_ON      == <<"O", "N">>
Chars_OFF     == <<"O", "F", "F">>
Chars_Dimmer  == <<"D", "i", "m", "m", "e", "r">>
Chars_CT      == <<"C", "T">>
Chars_HSBColor == <<"H", "S", "B", "C", "o", "l", "o", "r">>
Chars_fromSetValue ==
    <<"f", "r", "o", "m", "S", "e", "t", "V", "a", "l", "u", "e">>
Chars_objectObject ==
    <<"[", "o", "b", "j", "e", "c", "t", " ", "O", "b", "j", "e", "c", "t", "]">>

\* x.toString() for a value that is neither null nor undefined; an array
\* joins its elements with ",", null and undefined elements giving "".
RECURSIVE ToStringJS(_)
RECURSIVE JoinElems(_)
ElemText(x) == IF x.t \in {"null", "undefined"} THEN << >> ELSE ToStringJS(x)

JoinElems(es) ==
    IF es = << >> THEN << >>
    ELSE IF Len(es) = 1 THEN ElemText(es[1].v)
    ELSE ElemText(es[1].v) \o <<",">> \o JoinElems(Tail(es))

ToStringJS(x) ==
    CASE x.t = "number"  -> NumToStr(x.n)
      [] x.t = "string"  -> x.s
      [] x.t = "boolean" -> IF x.n = 1 THEN Chars_true ELSE Chars_false
      [] x.t = "array"   -> JoinElems(x.m)
      [] OTHER           -> Chars_objectObject

\* The conditional operator's test, x ? a : b.
Truthy(x) ==
    CASE x.t = "number"  -> x.n # 0
      [] x.t = "string"  -> x.s # << >>
      [] x.t = "boolean" -> x.n = 1
      [] x.t \in {"null", "undefined"} -> FALSE
      [] OTHER           -> TRUE

\* ToNumber of a primitive that is a number, a string or a boolean.
PrimToNumber(x) ==
    IF x.t = "string" THEN StrToNumber(x.s) ELSE [nan |-> FALSE, n |-> x.n]

\* ToPrimitive: objects and arrays become their toString().
ToPrimitive(x) ==
    IF x.t \in {"object", "array"} THEN JStr(ToStringJS(x)) ELSE x

\* x == y, the abstract equality comparison.  Two objects are equal only
\* when they are the same reference; every object the handler compares
\* comes out of its own JSON.parse call, so two objects are never equal.
IsNullish(x) == x.t \in {"null", "undefined"}

IsObject(x) == x.t \in {"object", "array"}

NumbersEq(nx, ny) == ~nx.nan /\ ~ny.nan /\ nx.n = ny.n

PrimitivesEq(px, py) ==
    IF px.t = "string" /\ py.t = "string" THEN px.s = py.s
    ELSE NumbersEq(PrimToNumber(px), PrimToNumber(py))

LooseEq(x, y) ==
    CASE IsNullish(x) \/ IsNullish(y) -> IsNullish(x) /\ IsNullish(y)
      [] IsObject(x) /\ IsObject(y)   -> FALSE
      [] OTHER -> PrimitivesEq(ToPrimitive(x), ToPrimitive(y))

\* x === y on the values the SET handlers compare (a context and a string).
StrictEq(x, y) ==
    /\ x.t = y.t
    /\ x.t \notin {"object", "array"}
    /\ x.n = y.n
    /\ x.s = y.s

\* String.prototype.split(sep) for a one-character separator.
RECURSIVE SplitAcc(_, _, _)
SplitAcc(cs, sep, cur) ==
    IF cs = << >> THEN << cur >>
    ELSE IF Head(cs) = sep THEN << cur >> \o SplitAcc(Tail(cs), sep, << >>)
    ELSE SplitAcc(Tail(cs), sep, Append(cur, Head(cs)))

Split(cs, sep) == SplitAcc(cs, sep, << >>)

\* parts[i] with i counted from 0: undefined past the end of the array.
ElementAt(parts, i) ==
    IF i + 1 <= Len(parts) THEN JStr(parts[i + 1]) ELSE JUndef

(***************************************************************************)
(* JSON.parse on characters: objects, arrays, strings without escapes,     *)
(* naturals, true, false, null, blanks between tokens.  A result is        *)
(* [ok, v, i]: ok FALSE is the SyntaxError, v the value, i the index of    *)
(* the first character not consumed.                                       *)
(***************************************************************************)
ParseFail == [ok |-> FALSE, v |-> JUndef, i |-> 0]

ParseOk(val, next) == [ok |-> TRUE, v |-> val, i |-> next]

\* The character at index i, "" past the end of the text.
At(cs, i) == IF i >= 1 /\ i <= Len(cs) THEN cs[i] ELSE ""

MatchAt(cs, i, word) ==
    /\ i + Len(word) - 1 <= Len(cs)
    /\ SubSeq(cs, i, i + Len(word) - 1) = word

RECURSIVE SkipWs(_, _)
SkipWs(cs, i) == IF At(cs, i) = " " THEN SkipWs(cs, i + 1) ELSE i

\* i is the index after the opening quote.
RECURSIVE ParseString(_, _, _)
ParseString(cs, i, acc) ==
    CASE At(cs, i) = ""   -> ParseFail
      [] At(cs, i) = "\\" -> ParseFail
      [] At(cs, i) = "\"" -> ParseOk(JStr(acc), i + 1)
      [] OTHER            -> ParseString(cs, i + 1, Append(acc, cs[i]))

RECURSIVE ParseDigits(_, _, _)
ParseDigits(cs, i, acc) ==
    IF IsDigit(At(cs, i))
    THEN ParseDigits(cs, i + 1, acc * 10 + DigitVal(cs[i]))
    ELSE ParseOk(JNum(acc), i)

\* A JSON number starts with a single 0 or with a non-zero digit.
ParseNumber(cs, i) ==
    IF cs[i] = "0" THEN ParseOk(JNum(0), i + 1) ELSE ParseDigits(cs, i, 0)

RECURSIVE ParseValue(_, _)
RECURSIVE ParseMembers(_, _, _)
RECURSIVE ParseElements(_, _, _)

\* Mutant: the end of the text closes an object that is still open.
MemberNext_LenientEnd(cs, ms, e) ==
    CASE At(cs, e) = "," -> ParseMembers(cs, SkipWs(cs, e + 1), ms)
      [] At(cs, e) = "}" -> ParseOk(JObj(ms), e + 1)
      [] At(cs, e) = ""  -> ParseOk(JObj(ms), e)
      [] OTHER           -> ParseFail

\* After a member: "," and the next member, or the closing brace at e.
MemberNext(cs, ms, e) ==
    CASE At(cs, e) = "," -> ParseMembers(cs, SkipWs(cs, e + 1), ms)
      [] At(cs, e) = "}" -> ParseOk(JObj(ms), e + 1)
      [] OTHER           -> ParseFail

MemberEnd(cs, acc, key, val) ==
    IF val.ok
    THEN MemberNext(cs, Append(acc, Member(key.v.s, val.v)), SkipWs(cs, val.i))
    ELSE ParseFail

MemberValue(cs, acc, key, c) ==
    IF At(cs, c) = ":" THEN MemberEnd(cs, acc, key, ParseValue(cs, c + 1))
    ELSE ParseFail

MemberColon(cs, acc, key) ==
    IF key.ok THEN MemberValue(cs, acc, key, SkipWs(cs, key.i)) ELSE ParseFail

\* j is the index of the quote that opens the member's key.
ParseMembers(cs, j, acc) ==
    IF At(cs, j) = "\"" THEN MemberColon(cs, acc, ParseString(cs, j + 1, << >>))
    ELSE ParseFail

ElementNext(cs, es, e) ==
    CASE At(cs, e) = "," -> ParseElements(cs, e + 1, es)
      [] At(cs, e) = "]" -> ParseOk(JArr(es), e + 1)
      [] OTHER           -> ParseFail

ElementEnd(cs, acc, val) ==
    IF val.ok
    THEN ElementNext(cs, Append(acc, Member(<< >>, val.v)), SkipWs(cs, val.i))
    ELSE ParseFail

ParseElements(cs, i, acc) == ElementEnd(cs, acc, ParseValue(cs, i))

\* j is the index after the opening brace or bracket, blanks skipped.
ParseObject(cs, j) ==
    IF At(cs, j) = "}" THEN ParseOk(JObj(<< >>), j + 1)
    ELSE ParseMembers(cs, j, << >>)

ParseArray(cs, j) ==
    IF At(cs, j) = "]" THEN ParseOk(JArr(<< >>), j + 1)
    ELSE ParseElements(cs, j, << >>)

ParseValueAt(cs, j) ==
    CASE At(cs, j) = "{"  -> ParseObject(cs, SkipWs(cs, j + 1))
      [] At(cs, j) = "["  -> ParseArray(cs, SkipWs(cs, j + 1))
      [] At(cs, j) = "\"" -> ParseString(cs, j + 1, << >>)
      [] IsDigit(At(cs, j)) -> ParseNumber(cs, j)
      [] MatchAt(cs, j, Chars_true)  -> ParseOk(JBool(TRUE), j + 4)
      [] MatchAt(cs, j, Chars_false) -> ParseOk(JBool(FALSE), j + 5)
      [] MatchAt(cs, j, Chars_null)  -> ParseOk(JNull, j + 4)
      [] OTHER -> ParseFail

ParseValue(cs, i) == ParseValueAt(cs, SkipWs(cs, i))

\* JSON.parse(text): [threw, v]; threw is the SyntaxError.
Parsed(cs, r) ==
    IF r.ok /\ SkipWs(cs, r.i) > Len(cs)
    THEN [threw |-> FALSE, v |-> r.v]
    ELSE [threw |-> TRUE, v |-> JUndef]

JSONparse(cs) == Parsed(cs, ParseValue(cs, 1))

\* x.key: a TypeError on null and undefined, the last member of that name
\* on an object, undefined on anything else (the keys read are Dimmer, CT
\* and HSBColor, which no prototype defines).
RECURSIVE LastMember(_, _)
LastMember(ms, key) ==
    IF ms = << >> THEN JUndef
    ELSE IF ms[Len(ms)].k = key THEN ms[Len(ms)].v
    ELSE LastMember(SubSeq(ms, 1, Len(ms) - 1), key)

GetProp(x, key) ==
    CASE x.t \in {"null", "undefined"} -> [threw |-> TRUE, v |-> JUndef]
      [] x.t = "object" -> [threw |-> FALSE, v |-> LastMember(x.m, key)]
      [] OTHER -> [threw |-> FALSE, v |-> JUndef]


(***************************************************************************)
(* Inputs: the configured topics, the payloads the broker delivers and     *)
(* the values and contexts the host framework calls the handlers with.     *)
(***************************************************************************)
\* Initial values of the mirror fields.
DefaultBrightness == 0
DefaultColorTemp == 153
DefaultHue == 0
DefaultSat == 0

\* Sample values carried by messages and host requests.
SampleBrightness == 42
SampleColorTemp == 300
SampleHue == 120
SampleSat == 50
SampleBri3 == 80

FromSetValue == JStr(Chars_fromSetValue)

TopicPower  == "light/status"
TopicResult == "light/composite"
TopicOther  == "light/other"

\* config.topics: the composite topic is any inbound topic, the power
\* topic included; the five publish topics are distinct.
Configs ==
    { [ getOn |-> TopicPower, getRes |-> r,
        setOn |-> "light/set/on", setBrightness |-> "light/set/brightness",
        setColorTemp |-> "light/set/ct", setHue |-> "light/set/hue",
        setSat |-> "light/set/sat" ] : r \in {TopicPower, TopicResult} }

MessageTopics == {TopicPower, TopicResult, TopicOther}

Quoted(cs) == <<"\"">> \o cs \o <<"\"">>

FieldText(key, valueText) == Quoted(key) \o <<":">> \o valueText

RECURSIVE JoinText(_)
JoinText(parts) ==
    IF parts = << >> THEN << >>
    ELSE IF Len(parts) = 1 THEN parts[1]
    ELSE parts[1] \o <<",">> \o JoinText(Tail(parts))

ObjectText(fields) == <<"{">> \o JoinText(fields) \o <<"}">>

HSBText(parts) == Quoted(JoinText(parts))

F_Dimmer    == FieldText(Chars_Dimmer, NumToStr(SampleBrightness))
F_DimmerStr == FieldText(Chars_Dimmer, Quoted(NumToStr(SampleBrightness)))
F_DimmerObj == FieldText(Chars_Dimmer, <<"{", "}">>)
F_CT        == FieldText(Chars_CT, NumToStr(SampleColorTemp))
F_HSB       == FieldText(Chars_HSBColor,
                   HSBText(<< NumToStr(SampleHue), NumToStr(SampleSat),
                              NumToStr(SampleBri3) >>))
F_HSB1      == FieldText(Chars_HSBColor, HSBText(<< NumToStr(SampleHue) >>))
F_Power     == FieldText(<<"P", "O", "W", "E", "R">>, Quoted(Chars_ON))

\* Status tokens, texts that are not JSON, JSON that is no object, and
\* composite objects carrying some of Dimmer, CT and HSBColor.
StatusPayloads == { Chars_ON, Chars_OFF }

MalformedPayloads == { <<"{">>, <<"{">> \o F_Dimmer }

CompositePayloads ==
    { ObjectText(<< F_Dimmer >>), ObjectText(<< F_DimmerStr >>),
      ObjectText(<< F_DimmerObj >>), ObjectText(<< F_CT >>),
      ObjectText(<< F_HSB >>), ObjectText(<< F_HSB1 >>),
      ObjectText(<< F_Power >>),
      ObjectText(<< F_Dimmer, F_CT >>),
      ObjectText(<< F_Power, F_Dimmer, F_CT, F_HSB >>) }

Payloads ==
    StatusPayloads \cup MalformedPayloads \cup { Chars_null } \cup CompositePayloads

HostValues(ch) ==
    CASE ch = "On"               -> { JBool(TRUE), JBool(FALSE) }
      [] ch = "Brightness"       -> { JNum(DefaultBrightness), JNum(SampleBrightness) }
      [] ch = "ColorTemperature" -> { JNum(DefaultColorTemp), JNum(SampleColorTemp) }
      [] ch = "Hue"              -> { JNum(DefaultHue), JNum(SampleHue) }
      [] ch = "Saturation"       -> { JNum(DefaultSat), JNum(SampleSat) }

\* The context of a SET: none, an object of the framework, or a string.
Contexts == { JUndef, JObj(<< >>), FromSetValue }

\* JSON.parse(message.toString()).key, the expression the handler
\* evaluates once for the test and once for the value of each field.
PropOfParsed(p, key) ==
    IF p.threw THEN [threw |-> TRUE, v |-> JUndef] ELSE GetProp(p.v, key)

EvalField(message, key) == PropOfParsed(JSONparse(message), key)

FieldKeys == { Chars_Dimmer, Chars_CT, Chars_HSBColor }

\* The same expression, evaluated once for each payload and key.
FieldTable == [ message \in Payloads |-> [ key \in FieldKeys |-> EvalField(message, key) ] ]

ParsedField(message, key) == FieldTable[message][key]

(***************************************************************************)
(* State                                                                   *)
(***************************************************************************)
VARIABLES
    topics,               \* config.topics, read-only after construction
    lightbulbOn,          \* the five mirror fields
    lightbulbBrightness,
    lightbulbColorTemp,
    lightbulbHue,
    lightbulbSat,
    ev,                   \* the event the last handler was called with
    pubs,                 \* mqttClient.publish calls of the last handler
    pushes,               \* characteristic setValue calls of the last handler
    threw,                \* an exception left the last handler
    ret                   \* the callback call of the last GET/SET handler

vars == << topics, lightbulbOn, lightbulbBrightness, lightbulbColorTemp,
           lightbulbHue, lightbulbSat, ev, pubs, pushes, threw, ret >>

\* The handlers work on a record: the mirror fields and what the handler
\* has done so far.
Cur ==
    [ on |-> lightbulbOn, bri |-> lightbulbBrightness, ct |-> lightbulbColorTemp,
      hue |-> lightbulbHue, sat |-> lightbulbSat,
      pubs |-> << >>, pushes |-> << >>, threw |-> FALSE ]

Publish(st, topic, payload) ==
    [st EXCEPT !.pubs = Append(@, [topic |-> topic, payload |-> payload])]

(***************************************************************************)
(* Characteristic SET handlers: (value, callback, context)                 *)
(***************************************************************************)
\* Mutant: the On SET listener without the test of the context.
OnSet_Untagged(st, value, context) ==
    Publish([st EXCEPT !.on = value], topics.setOn,
            IF Truthy(value) THEN Chars_ON ELSE Chars_OFF)

OnSet(st, value, context) ==
    IF ~StrictEq(context, FromSetValue)
    THEN Publish([st EXCEPT !.on = value], topics.setOn,
                 IF Truthy(value) THEN Chars_ON ELSE Chars_OFF)
    ELSE st

\* Mutant: the Brightness SET listener writes the field and publishes nothing.
BrightnessSet_NoPublish(st, value, context) ==
    IF ~StrictEq(context, FromSetValue) THEN [st EXCEPT !.bri = value] ELSE st

BrightnessSet(st, value, context) ==
    IF ~StrictEq(context, FromSetValue)
    THEN Publish([st EXCEPT !.bri = value], topics.setBrightness, ToStringJS(value))
    ELSE st

ColorTemperatureSet(st, value, context) ==
    IF ~StrictEq(context, FromSetValue)
    THEN Publish([st EXCEPT !.ct = value], topics.setColorTemp, ToStringJS(value))
    ELSE st

\* Mutant: the Hue SET listener also writes the saturation.
HueSet_AlsoSat(st, value, context) ==
    IF ~StrictEq(context, FromSetValue)
    THEN Publish([st EXCEPT !.hue = value, !.sat = value], topics.setHue,
                 ToStringJS(value))
    ELSE st

HueSet(st, value, context) ==
    IF ~StrictEq(context, FromSetValue)
    THEN Publish([st EXCEPT !.hue = value], topics.setHue, ToStringJS(value))
    ELSE st

SaturationSet(st, value, context) ==
    IF ~StrictEq(context, FromSetValue)
    THEN Publish([st EXCEPT !.sat = value], topics.setSat, ToStringJS(value))
    ELSE st

Channels == {"On", "Brightness", "ColorTemperature", "Hue", "Saturation"}

\* The SET listener registered on characteristic ch.
SetListener(ch, st, value, context) ==
    CASE ch = "On"               -> OnSet(st, value, context)
      [] ch = "Brightness"       -> BrightnessSet(st, value, context)
      [] ch = "ColorTemperature" -> ColorTemperatureSet(st, value, context)
      [] ch = "Hue"              -> HueSet(st, value, context)
      [] ch = "Saturation"       -> SaturationSet(st, value, context)

\* getCharacteristic(ch).setValue(value, undefined, 'fromSetValue'): the
\* host framework takes the value and calls the characteristic's SET
\* listener with the context it was given.
SetValue(st, ch, value, context) ==
    SetListener(ch,
                [st EXCEPT !.pushes =
                     Append(@, [ch |-> ch, value |-> value, context |-> context])],
                value, context)

(***************************************************************************)
(* Characteristic GET handlers: callback(undefined, field)                 *)
(***************************************************************************)
Returned(st, val) == [st |-> st, called |-> TRUE, err |-> JUndef, value |-> val]

OnGet(st) == Returned(st, st.on)

\* Mutant: the Brightness GET listener returns another field.
BrightnessGet_WrongField(st) == Returned(st, st.ct)

BrightnessGet(st) == Returned(st, st.bri)

ColorTemperatureGet(st) == Returned(st, st.ct)

HueGet(st) == Returned(st, st.hue)

SaturationGet(st) == Returned(st, st.sat)

(***************************************************************************)
(* mqttClient.on('message', function (topic, message) ...)                 *)
(***************************************************************************)
Throw(st) == [st EXCEPT !.threw = TRUE]

\* The push that follows the write of a mirror field: the value pushed is
\* the field, read back.
\* Mutant: the power push without the echo tag.
PushOn_Untagged(st) == SetValue(st, "On", st.on, JUndef)

PushOn(st) == SetValue(st, "On", st.on, FromSetValue)

\* Mutant: the brightness push without the echo tag.
PushBrightness_Untagged(st) == SetValue(st, "Brightness", st.bri, JUndef)

PushBrightness(st) == SetValue(st, "Brightness", st.bri, FromSetValue)

PushColorTemperature(st) == SetValue(st, "ColorTemperature", st.ct, FromSetValue)

PushHue(st) == SetValue(st, "Hue", st.hue, FromSetValue)

PushSaturation(st) == SetValue(st, "Saturation", st.sat, FromSetValue)

\* Mutant: every status but OFF turns the power on.
PowerBranch_NotOff(st, topic, message) ==
    IF topic = topics.getOn
    THEN PushOn([st EXCEPT !.on = JBool(message # Chars_OFF)])
    ELSE st

PowerBranch(st, topic, message) ==
    IF topic = topics.getOn
    THEN PushOn([st EXCEPT !.on = JBool(message = Chars_ON)])
    ELSE st

\* Mutant: the brightness is pushed before the field is written.
DimmerUpdate_PushBeforeWrite(st, newB) ==
    IF ~LooseEq(newB, st.bri) THEN [PushBrightness(st) EXCEPT !.bri = newB] ELSE st

DimmerUpdate(st, newB) ==
    IF ~LooseEq(newB, st.bri) THEN PushBrightness([st EXCEPT !.bri = newB]) ELSE st

DimmerBranch(st, message) ==
    IF st.threw THEN st
    ELSE IF ParsedField(message, Chars_Dimmer).threw THEN Throw(st)
    ELSE IF ~LooseEq(ParsedField(message, Chars_Dimmer).v, JNull)
    THEN DimmerUpdate(st, ParsedField(message, Chars_Dimmer).v)
    ELSE st

CTUpdate(st, newCT) ==
    IF ~LooseEq(newCT, st.ct) THEN PushColorTemperature([st EXCEPT !.ct = newCT])
    ELSE st

\* Mutant: the CT branch without the test that the field is present.
CTBranch_NoPresenceTest(st, message) ==
    IF st.threw THEN st
    ELSE IF ParsedField(message, Chars_CT).threw THEN Throw(st)
    ELSE CTUpdate(st, ParsedField(message, Chars_CT).v)

CTBranch(st, message) ==
    IF st.threw THEN st
    ELSE IF ParsedField(message, Chars_CT).threw THEN Throw(st)
    ELSE IF ~LooseEq(ParsedField(message, Chars_CT).v, JNull)
    THEN CTUpdate(st, ParsedField(message, Chars_CT).v)
    ELSE st

\* HSBColor.toString().split(',')[i]
HSBPart(hsb, i) == ElementAt(Split(ToStringJS(hsb), ","), i)

HueUpdate(st, newHue) ==
    IF ~LooseEq(newHue, st.hue) THEN PushHue([st EXCEPT !.hue = newHue]) ELSE st

HueBranch(st, message) ==
    IF st.threw THEN st
    ELSE IF ParsedField(message, Chars_HSBColor).threw THEN Throw(st)
    ELSE IF ~LooseEq(ParsedField(message, Chars_HSBColor).v, JNull)
    THEN HueUpdate(st, HSBPart(ParsedField(message, Chars_HSBColor).v, 0))
    ELSE st

SatUpdate(st, newSat) ==
    IF ~LooseEq(newSat, st.sat) THEN PushSaturation([st EXCEPT !.sat = newSat]) ELSE st

SatBranch(st, message) ==
    IF st.threw THEN st
    ELSE IF ParsedField(message, Chars_HSBColor).threw THEN Throw(st)
    ELSE IF ~LooseEq(ParsedField(message, Chars_HSBColor).v, JNull)
    THEN SatUpdate(st, HSBPart(ParsedField(message, Chars_HSBColor).v, 1))
    ELSE st

\* Mutant: the composite branch without the test of the topic.
CompositeBranch_AnyTopic(st, topic, message) ==
    SatBranch(HueBranch(CTBranch(DimmerBranch(st, message), message), message),
              message)

CompositeBranch(st, topic, message) ==
    IF topic = topics.getRes
    THEN SatBranch(HueBranch(CTBranch(DimmerBranch(st, message), message), message),
                   message)
    ELSE st

MessageHandler(st, topic, message) ==
    CompositeBranch(PowerBranch(st, topic, message), topic, message)

\* Mutant: the error listener marks the light as off.
ErrorHandler_PowerOff(st) == [st EXCEPT !.on = JBool(FALSE)]

\* mqttClient.on('error', ...): the error is logged.
ErrorHandler(st) == st

(***************************************************************************)
(* Behaviour                                                               *)
(***************************************************************************)
\* The record of a handler call; tick alternates from one call to the
\* next, so that two calls with the same arguments are two events.
EventAt(tick, kind, ch, topic, message, value, context) ==
    [ kind |-> kind, ch |-> ch, topic |-> topic, message |-> message,
      value |-> value, context |-> context, tick |-> tick ]

Event(kind, ch, topic, message, value, context) ==
    EventAt(1 - ev.tick, kind, ch, topic, message, value, context)

NoCallback == [called |-> FALSE, err |-> JUndef, value |-> JUndef]

Init ==
    /\ topics \in Configs
    /\ lightbulbOn = JBool(FALSE)
    /\ lightbulbBrightness = JNum(DefaultBrightness)
    /\ lightbulbColorTemp = JNum(DefaultColorTemp)
    /\ lightbulbHue = JNum(DefaultHue)
    /\ lightbulbSat = JNum(DefaultSat)
    /\ ev = EventAt(0, "init", "", "", << >>, JUndef, JUndef)
    /\ pubs = << >>
    /\ pushes = << >>
    /\ threw = FALSE
    /\ ret = NoCallback

\* The state a handler leaves behind.
Commit(st) ==
    /\ lightbulbOn' = st.on
    /\ lightbulbBrightness' = st.bri
    /\ lightbulbColorTemp' = st.ct
    /\ lightbulbHue' = st.hue
    /\ lightbulbSat' = st.sat
    /\ pubs' = st.pubs
    /\ pushes' = st.pushes
    /\ threw' = st.threw
    /\ UNCHANGED topics

MqttMessage ==
    \E topic \in MessageTopics, message \in Payloads :
        /\ Commit(MessageHandler(Cur, topic, message))
        /\ ev' = Event("message", "", topic, message, JUndef, JUndef)
        /\ ret' = NoCallback

MqttError ==
    /\ Commit(ErrorHandler(Cur))
    /\ ev' = Event("error", "", "", << >>, JUndef, JUndef)
    /\ ret' = NoCallback

Get(ch, r) ==
    /\ Commit(r.st)
    /\ ev' = Event("get", ch, "", << >>, JUndef, JUndef)
    /\ ret' = [called |-> r.called, err |-> r.err, value |-> r.value]

\* A SET the host framework starts; the handler ends with callback().
Set(ch, value, context, st) ==
    /\ Commit(st)
    /\ ev' = Event("set", ch, "", << >>, value, context)
    /\ ret' = [called |-> TRUE, err |-> JUndef, value |-> JUndef]

GetOn == Get("On", OnGet(Cur))

GetBrightness == Get("Brightness", BrightnessGet(Cur))

GetColorTemperature == Get("ColorTemperature", ColorTemperatureGet(Cur))

GetHue == Get("Hue", HueGet(Cur))

GetSaturation == Get("Saturation", SaturationGet(Cur))

SetOn ==
    \E value \in HostValues("On"), context \in Contexts :
        Set("On", value, context, OnSet(Cur, value, context))

SetBrightness ==
    \E value \in HostValues("Brightness"), context \in Contexts :
        Set("Brightness", value, context, BrightnessSet(Cur, value, context))

SetColorTemperature ==
    \E value \in HostValues("ColorTemperature"), context \in Contexts :
        Set("ColorTemperature", value, context,
            ColorTemperatureSet(Cur, value, context))

SetHue ==
    \E value \in HostValues("Hue"), context \in Contexts :
        Set("Hue", value, context, HueSet(Cur, value, context))

SetSaturation ==
    \E value \in HostValues("Saturation"), context \in Contexts :
        Set("Saturation", value, context, SaturationSet(Cur, value, context))

Next ==
    \/ MqttMessage
    \/ MqttError
    \/ GetOn
    \/ GetBrightness
    \/ GetColorTemperature
    \/ GetHue
    \/ GetSaturation
    \/ SetOn
    \/ SetBrightness
    \/ SetColorTemperature
    \/ SetHue
    \/ SetSaturation

Spec == Init /\ [][Next]_vars

(***************************************************************************)
(* Properties                                                              *)
(***************************************************************************)
IsMessage(e) == e.kind = "message"

HostSet(e) == e.kind = "set" /\ ~StrictEq(e.context, FromSetValue)

\* The mirror field GET and SET of channel ch work on.
Mirror(ch) ==
    CASE ch = "On"               -> lightbulbOn
      [] ch = "Brightness"       -> lightbulbBrightness
      [] ch = "ColorTemperature" -> lightbulbColorTemp
      [] ch = "Hue"              -> lightbulbHue
      [] ch = "Saturation"       -> lightbulbSat

\* The publish topic configured for channel ch.
SetTopic(ch) ==
    CASE ch = "On"               -> topics.setOn
      [] ch = "Brightness"       -> topics.setBrightness
      [] ch = "ColorTemperature" -> topics.setColorTemp
      [] ch = "Hue"              -> topics.setHue
      [] ch = "Saturation"       -> topics.setSat

\* payload is the decimal numeral of k: digits only, no leading zero,
\* and read back as a number it is k.
IsDecimalOf(payload, k) ==
    /\ payload # << >>
    /\ \A i \in 1..Len(payload) : IsDigit(payload[i])
    /\ Len(payload) > 1 => payload[1] # "0"
    /\ StrToNumber(payload).n = k

\* payload is the wire form of value on channel ch.
IsWireForm(ch, payload, value) ==
    IF ch = "On"
    THEN payload = (IF value = JBool(TRUE) THEN Chars_ON ELSE Chars_OFF)
    ELSE value.t = "number" /\ IsDecimalOf(payload, value.n)

\* C1: a handler run for an MQTT message, whatever its topic, payload and
\* the mirror before it, publishes nothing, the SET listeners its pushes
\* call included.
C1_EchoSuppression == IsMessage(ev) => pubs = << >>

\* C1 witness: a power-topic message has pushed the tagged value.
C1_Witness ==
    /\ IsMessage(ev)
    /\ ev.topic = topics.getOn
    /\ pushes # << >>
    /\ pushes[1] = [ch |-> "On", value |-> lightbulbOn, context |-> FromSetValue]
    /\ pubs = << >>

\* C2: a SET the host starts without the echo tag publishes exactly once,
\* on the channel's own topic, the wire form of the value ("ON"/"OFF" for
\* power, the decimal numeral otherwise), whatever the mirror held before;
\* the GET of that channel handled next returns the value.
C2_LocalRoundTrip ==
    /\ [](HostSet(ev) =>
            /\ Len(pubs) = 1
            /\ pubs[1].topic = SetTopic(ev.ch)
            /\ IsWireForm(ev.ch, pubs[1].payload, ev.value))
    /\ [][(HostSet(ev) /\ ev'.kind = "get" /\ ev'.ch = ev.ch) =>
            (ret'.called /\ ret'.value = ev.value)]_vars

\* C2 witness: brightness was set by the host and published once.
C2_Witness ==
    /\ HostSet(ev)
    /\ ev.ch = "Brightness"
    /\ ev.value = JNum(SampleBrightness)
    /\ pubs = << [topic |-> topics.setBrightness,
                  payload |-> NumToStr(SampleBrightness)] >>
    /\ lightbulbBrightness = JNum(SampleBrightness)

\* C3: after a message on the power status topic the mirror's power is
\* true when the payload is the token ON and false for any other payload.
C3_PowerDecode ==
    (IsMessage(ev) /\ ev.topic = topics.getOn) =>
        /\ ev.message = Chars_ON => lightbulbOn = JBool(TRUE)
        /\ ev.message # Chars_ON => lightbulbOn = JBool(FALSE)

\* C3 witness: the token ON has turned the mirror's power on.
C3_Witness ==
    /\ IsMessage(ev)
    /\ ev.topic = topics.getOn
    /\ ev.message = Chars_ON
    /\ lightbulbOn = JBool(TRUE)

\* C4: a GET hands the callback no error and the current mirror value,
\* changes no mirror field, publishes nothing and pushes nothing; a GET
\* that follows a GET of the same channel returns the same value.
C4_GetSideEffectFree ==
    [][ev'.kind = "get" =>
          /\ ret'.called /\ ret'.err = JUndef /\ ~threw'
          /\ ret'.value = Mirror(ev'.ch)
          /\ \A ch \in Channels : Mirror(ch)' = Mirror(ch)
          /\ pubs' = << >> /\ pushes' = << >>
          /\ (ev.kind = "get" /\ ev.ch = ev'.ch) => ret'.value = ret.value]_vars

\* C4 witness: a GET has returned a brightness some event wrote before.
C4_Witness ==
    /\ ev.kind = "get"
    /\ ev.ch = "Brightness"
    /\ ret.called
    /\ ret.value = JNum(SampleBrightness)

\* The vocabulary of the composite topic.
OnComposite(e) == IsMessage(e) /\ e.topic = topics.getRes

FieldPresent(message, key) ==
    /\ ~ParsedField(message, key).threw
    /\ ~IsNullish(ParsedField(message, key).v)

CompositeChannels == {"Brightness", "ColorTemperature", "Hue", "Saturation"}

\* The channels derived from the fields a payload contains.
FedChannels(message) ==
    (IF FieldPresent(message, Chars_Dimmer) THEN {"Brightness"} ELSE {})
    \cup (IF FieldPresent(message, Chars_CT) THEN {"ColorTemperature"} ELSE {})
    \cup (IF FieldPresent(message, Chars_HSBColor) THEN {"Hue", "Saturation"} ELSE {})

PushedChannels(ps) == { ps[i].ch : i \in 1..Len(ps) }

\* The pushes of ps for channels in chs, in order.
PushesFor(ps, chs) == SelectSeq(ps, LAMBDA q : q.ch \in chs)

TaggedPush(ch, val) == [ch |-> ch, value |-> val, context |-> FromSetValue]

\* The channels a message on the composite topic may update: those of the
\* fields present, and power when the power branch listens on that topic.
MayUpdate(message) ==
    FedChannels(message)
    \cup (IF topics.getRes = topics.getOn THEN {"On"} ELSE {})

\* The Dimmer-only case of C5: brightness is the one composite channel
\* updated, the other three are neither pushed nor changed.
DimmerOnlyUpdates ==
    (/\ FedChannels(ev'.message) = {"Brightness"}
     /\ ~LooseEq(ParsedField(ev'.message, Chars_Dimmer).v, lightbulbBrightness)) =>
        /\ PushesFor(pushes', CompositeChannels) =
               << TaggedPush("Brightness", ParsedField(ev'.message, Chars_Dimmer).v) >>
        /\ lightbulbBrightness' = ParsedField(ev'.message, Chars_Dimmer).v
        /\ lightbulbColorTemp' = lightbulbColorTemp
        /\ lightbulbHue' = lightbulbHue
        /\ lightbulbSat' = lightbulbSat

\* C5 as stated: a composite-topic message updates only the channels
\* derived from the fields it contains; with Dimmer alone, differing from
\* the mirror's brightness, the brightness push is the only update.
C5_ExtractIfPresent ==
    [][OnComposite(ev') =>
          /\ PushedChannels(pushes') \subseteq FedChannels(ev'.message)
          /\ \A ch \in CompositeChannels \ FedChannels(ev'.message) :
                Mirror(ch)' = Mirror(ch)
          /\ DimmerOnlyUpdates
          /\ (/\ FedChannels(ev'.message) = {"Brightness"}
              /\ ~LooseEq(ParsedField(ev'.message, Chars_Dimmer).v,
                          lightbulbBrightness)) => Len(pushes') = 1]_vars

\* C5 amended: the same, except that the power branch adds one power
\* update when the composite topic is also the power topic; with distinct
\* topics the brightness push of the Dimmer-only case is the only update.
C5_ExtractIfPresentAmended ==
    [][OnComposite(ev') =>
          /\ PushedChannels(pushes') \subseteq MayUpdate(ev'.message)
          /\ \A ch \in Channels \ MayUpdate(ev'.message) : Mirror(ch)' = Mirror(ch)
          /\ DimmerOnlyUpdates
          /\ (/\ topics.getRes # topics.getOn
              /\ FedChannels(ev'.message) = {"Brightness"}
              /\ ~LooseEq(ParsedField(ev'.message, Chars_Dimmer).v,
                          lightbulbBrightness)) => Len(pushes') = 1]_vars

\* C5 witness: a Dimmer-only payload has updated brightness alone while
\* the other channels hold values written earlier.
C5_Witness ==
    /\ OnComposite(ev)
    /\ topics.getRes # topics.getOn
    /\ ev.message = ObjectText(<< F_Dimmer >>)
    /\ pushes = << TaggedPush("Brightness", JNum(SampleBrightness)) >>
    /\ lightbulbBrightness = JNum(SampleBrightness)
    /\ lightbulbColorTemp = JNum(SampleColorTemp)
    /\ lightbulbHue = JNum(SampleHue)

\* Payloads that are not JSON.
NotJSON == MalformedPayloads \cup StatusPayloads

\* C8 as stated: a composite-topic message that is not JSON changes no
\* mirror field, pushes nothing and publishes nothing.
C8_MalformedDropped ==
    [][(OnComposite(ev') /\ ev'.message \in NotJSON) =>
          /\ \A ch \in Channels : Mirror(ch)' = Mirror(ch)
          /\ pushes' = << >>
          /\ pubs' = << >>]_vars

\* C8 amended: such a message changes none of brightness, colour
\* temperature, hue and saturation, pushes nothing for them and publishes
\* nothing; power is untouched and nothing at all is pushed when the
\* composite topic is not also the power topic.
C8_MalformedDroppedAmended ==
    [][(OnComposite(ev') /\ ev'.message \in NotJSON) =>
          /\ \A ch \in CompositeChannels : Mirror(ch)' = Mirror(ch)
          /\ PushesFor(pushes', CompositeChannels) = << >>
          /\ pubs' = << >>
          /\ topics.getRes # topics.getOn =>
                (lightbulbOn' = lightbulbOn /\ pushes' = << >>)]_vars

\* C8 witness: a truncated object arrived on the composite topic while the
\* mirror held values written earlier, and nothing was pushed.
C8_Witness ==
    /\ OnComposite(ev)
    /\ topics.getRes # topics.getOn
    /\ ev.message = <<"{">> \o F_Dimmer
    /\ pushes = << >>
    /\ lightbulbBrightness = JNum(DefaultBrightness)
    /\ lightbulbColorTemp = JNum(SampleColorTemp)
    /\ lightbulbOn = JBool(TRUE)

\* The value the listener decodes for a composite channel from a payload
\* that carries the channel's field.
Decoded(message, ch) ==
    CASE ch = "Brightness"       -> ParsedField(message, Chars_Dimmer).v
      [] ch = "ColorTemperature" -> ParsedField(message, Chars_CT).v
      [] ch = "Hue"  -> HSBPart(ParsedField(message, Chars_HSBColor).v, 0)
      [] ch = "Saturation" -> HSBPart(ParsedField(message, Chars_HSBColor).v, 1)

\* C6: a field whose decoded value equals the mirror value of its channel
\* causes no push and no change of that channel; and when the same message
\* is handled on the composite topic twice in a row, the second handling
\* pushes and changes nothing for the channels the composite topic feeds.
C6_RepeatedTelemetry ==
    /\ [][OnComposite(ev') =>
            \A ch \in FedChannels(ev'.message) :
                LooseEq(Decoded(ev'.message, ch), Mirror(ch)) =>
                    /\ ch \notin PushedChannels(pushes')
                    /\ Mirror(ch)' = Mirror(ch)]_vars
    /\ [][(OnComposite(ev) /\ OnComposite(ev') /\ ev'.message = ev.message) =>
            /\ PushesFor(pushes', CompositeChannels) = << >>
            /\ \A ch \in CompositeChannels : Mirror(ch)' = Mirror(ch)]_vars

\* The payloads whose HSBColor is the three-component sample string.
HSB3Payloads ==
    { ObjectText(<< F_HSB >>), ObjectText(<< F_Power, F_Dimmer, F_CT, F_HSB >>) }

\* C7: after a composite message whose HSBColor is "H,S,B" the mirror's
\* hue is the number H and its saturation the number S, and B is in no
\* mirror field.
C7_HSBDecode ==
    (OnComposite(ev) /\ ev.message \in HSB3Payloads) =>
        /\ lightbulbHue = JNum(SampleHue)
        /\ lightbulbSat = JNum(SampleSat)
        /\ \A ch \in Channels :
              Mirror(ch) \notin { JNum(SampleBri3), JStr(NumToStr(SampleBri3)) }

\* C9: no exception leaves the message listener, and after a run that
\* failed to decode, the next message on the power topic is applied.
C9_DecodeFailureNonFatal ==
    /\ [](IsMessage(ev) => ~threw)
    /\ [][(threw /\ IsMessage(ev') /\ ev'.topic = topics.getOn) =>
            lightbulbOn' = JBool(ev'.message = Chars_ON)]_vars

\* C10: every mirror field holds a defined value in every reachable state.
C10_MirrorDefined == \A ch \in Channels : ~IsNullish(Mirror(ch))

\* The field key of the payload is present and its value is no number.
NonNumeric(message, key) ==
    /\ FieldPresent(message, key)
    /\ ParsedField(message, key).v.t # "number"

\* C11: a composite-topic message whose Dimmer (CT) is present and not a
\* number leaves the mirror's brightness (colour temperature) as it was
\* and pushes nothing for that channel.
C11_NonNumericIgnored ==
    [][OnComposite(ev') =>
          /\ NonNumeric(ev'.message, Chars_Dimmer) =>
                /\ lightbulbBrightness' = lightbulbBrightness
                /\ "Brightness" \notin PushedChannels(pushes')
          /\ NonNumeric(ev'.message, Chars_CT) =>
                /\ lightbulbColorTemp' = lightbulbColorTemp
                /\ "ColorTemperature" \notin PushedChannels(pushes')]_vars

\* C12: when a SET handler that was called with the echo tag returns,
\* nothing has been published and the mirror field of the channel holds
\* the value of the SET.
C12_TaggedSetWritesMirror ==
    (ev.kind = "set" /\ StrictEq(ev.context, FromSetValue)) =>
        /\ pubs = << >>
        /\ Mirror(ev.ch) = ev.value

\* C13: a message on a topic that is neither the power topic nor the
\* composite topic changes no mirror field, pushes nothing, publishes
\* nothing and raises nothing.
C13_OtherTopicIgnored ==
    [][(IsMessage(ev') /\ ev'.topic \notin {topics.getOn, topics.getRes}) =>
          /\ \A ch \in Channels : Mirror(ch)' = Mirror(ch)
          /\ pushes' = << >>
          /\ pubs' = << >>
          /\ ~threw']_vars

\* C13 witness: a Dimmer payload that differs from the mirror's brightness
\* arrived on another topic, and the mirror holds what was written before.
C13_Witness ==
    /\ IsMessage(ev)
    /\ ev.topic = TopicOther
    /\ ev.message = ObjectText(<< F_Dimmer >>)
    /\ lightbulbBrightness = JNum(DefaultBrightness)
    /\ lightbulbOn = JBool(TRUE)
    /\ lightbulbColorTemp = JNum(SampleColorTemp)
    /\ pushes = << >>

\* C14: the error listener changes no mirror field, pushes nothing,
\* publishes nothing and raises nothing; the power message, the host SET
\* and the GET handled next are handled as ever.
C14_ErrorTolerated ==
    /\ [][ev'.kind = "error" =>
            /\ \A ch \in Channels : Mirror(ch)' = Mirror(ch)
            /\ pushes' = << >>
            /\ pubs' = << >>
            /\ ~threw']_vars
    /\ [][ev.kind = "error" =>
            /\ (IsMessage(ev') /\ ev'.topic = topics.getOn) =>
                  /\ lightbulbOn' = JBool(ev'.message = Chars_ON)
                  /\ pushes' # << >>
                  /\ pushes'[1] = TaggedPush("On", lightbulbOn')
            /\ HostSet(ev') =>
                  /\ \A ch \in Channels : ch = ev'.ch => Mirror(ch)' = ev'.value
                  /\ Len(pubs') = 1
                  /\ ret'.called
            /\ ev'.kind = "get" =>
                  /\ ret'.called
                  /\ ret'.value = Mirror(ev'.ch)]_vars

\* C14 witness: an error event was handled while the mirror held values
\* written by earlier events.
C14_Witness ==
    /\ ev.kind = "error"
    /\ lightbulbOn = JBool(TRUE)
    /\ lightbulbBrightness = JNum(SampleBrightness)
    /\ lightbulbHue = JStr(NumToStr(SampleHue))
    /\ pushes = << >>
    /\ pubs = << >>

\* The power update of a message: the tagged push of the decoded status.
PowerUpdate(message) == TaggedPush("On", JBool(message = Chars_ON))

\* C15 as stated: a message on the power topic causes one push, the
\* tagged push of the decoded power, whatever the mirror held before, and
\* no push for another channel.
C15_PowerAlwaysPushed ==
    (IsMessage(ev) /\ ev.topic = topics.getOn) =>
        pushes = << PowerUpdate(ev.message) >>

\* C15 amended: the tagged push of the decoded power is the first push and
\* the only one for power; it is the only push at all when the composite
\* topic is another topic, and is followed by the pushes of the composite
\* fields the payload carries when both topics are the same.
C15_PowerAlwaysPushedAmended ==
    (IsMessage(ev) /\ ev.topic = topics.getOn) =>
        /\ pushes # << >>
        /\ pushes[1] = PowerUpdate(ev.message)
        /\ PushesFor(pushes, {"On"}) = << PowerUpdate(ev.message) >>
        /\ topics.getRes # topics.getOn => Len(pushes) = 1
        /\ PushedChannels(pushes) \subseteq {"On"} \cup FedChannels(ev.message)

\* C15 witness: a status other than ON arrived while the composite topic
\* is another topic, and power was pushed once as off.
C15_Witness ==
    /\ IsMessage(ev)
    /\ ev.topic = topics.getOn
    /\ topics.getRes # topics.getOn
    /\ ev.message = Chars_OFF
    /\ pushes = << TaggedPush("On", JBool(FALSE)) >>
    /\ lightbulbBrightness = JNum(SampleBrightness)

\* The channel that publishes on a topic.
ChannelOf(topic) == CHOOSE ch \in Channels : SetTopic(ch) = topic

\* Every push of ps carries the echo tag and the value the mirror field of
\* its channel holds.
PushesCarryMirror(ps) ==
    \A i \in 1..Len(ps) :
        /\ ps[i].context = FromSetValue
        /\ ps[i].value = Mirror(ps[i].ch)

\* Every publish of qs carries the wire form of the value the mirror field
\* of its channel holds.
PublishesCarryMirror(qs) ==
    \A i \in 1..Len(qs) :
        /\ \E ch \in Channels : SetTopic(ch) = qs[i].topic
        /\ IsWireForm(ChannelOf(qs[i].topic), qs[i].payload,
                      Mirror(ChannelOf(qs[i].topic)))

\* C16: the value a tagged push or a publish carries is the value the
\* mirror field of its channel holds, so the field was written before the
\* notification; the GET of that channel handled next returns that value.
C16_WriteBeforeNotify ==
    /\ [](PushesCarryMirror(pushes) /\ PublishesCarryMirror(pubs))
    /\ [][ev'.kind = "get" =>
            /\ \A i \in 1..Len(pushes) :
                  pushes[i].ch = ev'.ch => ret'.value = pushes[i].value
            /\ \A i \in 1..Len(pubs) :
                  ChannelOf(pubs[i].topic) = ev'.ch =>
                      IsWireForm(ev'.ch, pubs[i].payload, ret'.value)]_vars

\* C16 witness: a composite message has written brightness and colour
\* temperature and pushed both.
C16_Witness ==
    /\ OnComposite(ev)
    /\ pushes = << TaggedPush("Brightness", JNum(SampleBrightness)),
                   TaggedPush("ColorTemperature", JNum(SampleColorTemp)) >>
    /\ lightbulbBrightness = JNum(SampleBrightness)
    /\ lightbulbColorTemp = JNum(SampleColorTemp)

\* Message e is the device's status for value v of channel ch: the power
\* token of v on the power topic, or a composite payload whose field for
\* ch decodes to v.
Answers(e, ch, v) ==
    IF ch = "On"
    THEN IsMessage(e) /\ e.topic = topics.getOn /\ IsWireForm("On", e.message, v)
    ELSE /\ OnComposite(e)
         /\ ch \in FedChannels(e.message)
         /\ LooseEq(Decoded(e.message, ch), v)

AtMostOnePushPerChannel(ps) ==
    \A ch \in Channels : Len(PushesFor(ps, {ch})) <= 1

\* C17: a message causes at most one tagged push for each channel and no
\* publish, the SET listeners its pushes call included; a host SET causes
\* one publish and no push; and the status message that answers that SET
\* with the same value causes at most one push for each channel and no
\* publish, and leaves the mirror field holding the value that was set.
C17_NoBridgeLoop ==
    /\ [](IsMessage(ev) =>
            /\ pubs = << >>
            /\ AtMostOnePushPerChannel(pushes)
            /\ \A i \in 1..Len(pushes) : pushes[i].context = FromSetValue)
    /\ [](HostSet(ev) => (Len(pubs) = 1 /\ pushes = << >>))
    /\ [][\A ch \in Channels :
            (HostSet(ev) /\ ev.ch = ch /\ Answers(ev', ch, ev.value)) =>
                /\ pubs' = << >>
                /\ AtMostOnePushPerChannel(pushes')
                /\ Mirror(ch)' = ev.value]_vars

\* C17 witness: the composite message carries the brightness the mirror
\* already holds, as after a SET of that value, and causes neither a push
\* nor a publish.
C17_Witness ==
    /\ OnComposite(ev)
    /\ topics.getRes # topics.getOn
    /\ ev.message = ObjectText(<< F_Dimmer >>)
    /\ lightbulbBrightness = JNum(SampleBrightness)
    /\ pushes = << >>
    /\ pubs = << >>

\* C18: every SET the host starts, whatever context it passes, writes the
\* mirror field and publishes once on the channel's topic; only the SET a
\* push of the message listener calls goes without a publish.
C18_OnlyEchoesSuppressed ==
    ev.kind = "set" =>
        /\ Mirror(ev.ch) = ev.value
        /\ Len(pubs) = 1
        /\ pubs[1].topic = SetTopic(ev.ch)

\* C19: with distinct inbound topics, a power-topic message changes no
\* field but power, a composite-topic message does not change power, and
\* a SET of a channel changes no other field and publishes on no other
\* topic.
C19_ChannelIndependence ==
    [][topics.getRes # topics.getOn =>
          /\ (IsMessage(ev') /\ ev'.topic = topics.getOn) =>
                \A ch \in Channels \ {"On"} : Mirror(ch)' = Mirror(ch)
          /\ OnComposite(ev') => lightbulbOn' = lightbulbOn
          /\ ev'.kind = "set" =>
                /\ \A ch \in Channels \ {ev'.ch} : Mirror(ch)' = Mirror(ch)
                /\ \A i \in 1..Len(pubs') : pubs'[i].topic = SetTopic(ev'.ch)]_vars

\* C19 witness: the host has set the hue while saturation and brightness
\* hold other values written before.
C19_Witness ==
    /\ HostSet(ev)
    /\ ev.ch = "Hue"
    /\ topics.getRes # topics.getOn
    /\ lightbulbHue = JNum(SampleHue)
    /\ lightbulbSat = JNum(SampleSat)
    /\ lightbulbBrightness = JNum(SampleBrightness)
    /\ lightbulbOn = JBool(TRUE)
    /\ pubs = << [topic |-> topics.setHue, payload |-> NumToStr(SampleHue)] >>

\* The text is a decimal numeral.
IsNumeral(x) == x.t = "string" /\ ~StrToNumber(x.s).nan

\* A composite payload is well-formed when it is a JSON object whose
\* Dimmer and CT, where present, are numbers and whose HSBColor, where
\* present, is a string of at least two numerals.
WellFormedComposite(message) ==
    /\ ~ParsedField(message, Chars_Dimmer).threw
    /\ \A key \in {Chars_Dimmer, Chars_CT} :
          FieldPresent(message, key) => ParsedField(message, key).v.t = "number"
    /\ FieldPresent(message, Chars_HSBColor) =>
          /\ ParsedField(message, Chars_HSBColor).v.t = "string"
          /\ IsNumeral(HSBPart(ParsedField(message, Chars_HSBColor).v, 0))
          /\ IsNumeral(HSBPart(ParsedField(message, Chars_HSBColor).v, 1))

\* A well-formed event: a host SET, or a message that is well-formed for
\* every branch of the listener that reads its topic.
WellFormedEvent(e) ==
    \/ HostSet(e)
    \/ /\ IsMessage(e)
       /\ e.topic \in {topics.getOn, topics.getRes}
       /\ e.topic = topics.getOn => e.message \in StatusPayloads
       /\ e.topic = topics.getRes => WellFormedComposite(e.message)

\* The channels event e carries a value for.
Addressed(e) ==
    IF e.kind = "set" THEN {e.ch}
    ELSE (IF e.topic = topics.getOn THEN {"On"} ELSE {})
         \cup (IF e.topic = topics.getRes THEN FedChannels(e.message) ELSE {})

\* The value well-formed event e carries for channel ch.
Carried(e, ch) ==
    IF e.kind = "set" THEN e.value
    ELSE CASE ch = "On" -> JBool(e.message = Chars_ON)
           [] ch \in {"Brightness", "ColorTemperature"} -> Decoded(e.message, ch)
           [] ch \in {"Hue", "Saturation"} ->
                  JNum(StrToNumber(Decoded(e.message, ch).s).n)

Defaults ==
    /\ lightbulbOn = JBool(FALSE)
    /\ lightbulbBrightness = JNum(DefaultBrightness)
    /\ lightbulbColorTemp = JNum(DefaultColorTemp)
    /\ lightbulbHue = JNum(DefaultHue)
    /\ lightbulbSat = JNum(DefaultSat)

\* C20: the mirror starts at the defaults, and every well-formed event
\* leaves each channel it addresses at the value it carries and every
\* other channel as it was; so each channel holds the value of the most
\* recent event for it, or its default when there was none.
C20_LastWriterWins ==
    /\ [](ev.kind = "init" => Defaults)
    /\ [][WellFormedEvent(ev') =>
            \A ch \in Channels :
                IF ch \in Addressed(ev')
                THEN Mirror(ch)' = Carried(ev', ch)
                ELSE Mirror(ch)' = Mirror(ch)]_vars

\* The value the host framework received for channel ch from the last
\* handler: the value of its own SET, or the last value pushed to it.
HostReceived(ch) ==
    IF ev.kind = "set" /\ ev.ch = ch THEN ev.value
    ELSE PushesFor(pushes, {ch})[Len(PushesFor(pushes, {ch}))].value

\* The channels the host framework received a value for from the last
\* handler.
HostTouched ==
    PushedChannels(pushes) \cup (IF ev.kind = "set" THEN {ev.ch} ELSE {})

\* C21: between handlers, every channel the host received a value for
\* holds that value in the mirror, and a handler that gives the host no
\* value for a channel leaves the channel's mirror field as it was; so
\* the value the host last received for a channel is the one GET returns.
C21_HostViewAgrees ==
    /\ [](\A ch \in HostTouched : HostReceived(ch) = Mirror(ch))
    /\ [][\A ch \in Channels \ HostTouched' : Mirror(ch)' = Mirror(ch)]_vars

====
